---------------------------- MODULE Spec2Model ----------------------------
(***************************************************************************)
(* TD_player of the 2584/2048 framework: the n-tuple network               *)
(* (estimate_value, adjust_value), the expectimax lookahead (expect_value),*)
(* action selection (take_action) and the backward n-step TD pass          *)
(* (close_episode), as written in src/unnamed/part_000.                    *)
(*                                                                         *)
(* Numbers.  A C++ `float` is an IEEE-754 binary32 value.  It is modelled  *)
(* as a pair <<m, e>> standing for m * 2^e with |m| < 2^24, and every      *)
(* arithmetic result is rounded to nearest, ties to even, as the hardware  *)
(* does.  A C++ `int` is a TLA+ integer; float -> int conversion truncates *)
(* toward zero.                                                            *)
(***************************************************************************)
EXTENDS Integers, Sequences, FiniteSets, TLC

(***************************************************************************)
(* binary32                                                                *)
(***************************************************************************)
SigBits == 24
EMin == -149
EMax == 104
EInf == 105

Two(k) == 2 ^ k

FZero == <<0, EMin>>
FInf(s) == <<s, EInf>>
FNaN == <<0, EInf>>
IsNaN(a) == a[2] = EInf /\ a[1] = 0
IsInf(a) == a[2] = EInf /\ a[1] # 0
IsFinite(a) == a[2] # EInf
IsZero(a) == a[2] # EInf /\ a[1] = 0
Sgn(i) == IF i < 0 THEN -1 ELSE 1
Abs(i) == IF i < 0 THEN -i ELSE i

\* std::numeric_limits<float>::max() = (2^24 - 1) * 2^104
FltMax == <<Two(SigBits) - 1, EMax>>
FNeg(a) == <<-a[1], a[2]>>

\* number of bits of M, 0 <= M < 2^30 (found by halving)
BitLen2(M) == IF M >= 2 THEN 2 ELSE M
BitLen4(M) == IF M >= 4 THEN 2 + BitLen2(M \div 4) ELSE BitLen2(M)
BitLen8(M) == IF M >= 16 THEN 4 + BitLen4(M \div 16) ELSE BitLen4(M)
BitLen16(M) == IF M >= 256 THEN 8 + BitLen8(M \div 256) ELSE BitLen8(M)
BitLen(M) == IF M >= 65536 THEN 16 + BitLen16(M \div 65536) ELSE BitLen16(M)

\* s * q * 2^e for a rounded significand 0 <= q <= 2^24
Pack(s, q, e) ==
  IF q = 0 THEN FZero
  ELSE IF q = Two(SigBits)
       THEN (IF e + 1 > EMax THEN FInf(s) ELSE <<s * Two(SigBits - 1), e + 1>>)
       ELSE (IF e > EMax THEN FInf(s) ELSE <<s * q, e>>)
\* round to nearest, ties to even: q is the kept part, rem the dropped part,
\* half is half a unit of q
RoundBits(s, e, sticky, q, rem, half) ==
  IF rem > half \/ (rem = half /\ (sticky \/ q % 2 = 1))
  THEN Pack(s, q + 1, e) ELSE Pack(s, q, e)
\* M has r0 bits more than a significand holds; r bits are dropped
RoundShift(s, M, E, sticky, r0, r) ==
  IF r <= 0
  THEN \* exact: shift left up to normal form, not below EMin
       (IF E - EMin < -r0 THEN <<s * M * Two(E - EMin), EMin>>
        ELSE <<s * M * Two(-r0), E + r0>>)
  ELSE IF r > 30 THEN FZero
  ELSE RoundBits(s, E + r, sticky, M \div Two(r), M % Two(r), Two(r - 1))
RoundLen(s, M, E, sticky, L) ==
  RoundShift(s, M, E, sticky, L - SigBits,
             IF EMin - E > L - SigBits THEN EMin - E ELSE L - SigBits)
\* The binary32 nearest (ties to even) to s * (M + f) * 2^E, where 0 <= f < 1
\* and f # 0 exactly when sticky.  0 <= M < 2^30.
Round(s, M, E, sticky) ==
  IF M = 0 /\ ~sticky THEN FZero ELSE RoundLen(s, M, E, sticky, BitLen(M))
\* the binary32 nearest to the integer S * 2^e
RoundInt(S, e) == Round(Sgn(S), Abs(S), e, FALSE)

\* the ends of int's range
IntMax == 2147483647
IntMin == -IntMax - 1
\* float(i) for an int i
FromInt(i) ==
  IF i = IntMin THEN <<-Two(SigBits - 1), 8>>
  ELSE IF Abs(i) < Two(30) THEN RoundInt(i, 0)
  ELSE Round(Sgn(i), Abs(i) \div 2, 1, Abs(i) % 2 = 1)

\* x + y for finite nonzero x, y whose exponents differ by d > 5: y is cut
\* to q units of 2^(x[2] - 5), st telling whether bits of y were cut off
AddFar(x, y, q, st) ==
  Round(Sgn(x[1]),
        IF Sgn(y[1]) = Sgn(x[1]) THEN Abs(x[1]) * 32 + q
        ELSE IF st THEN Abs(x[1]) * 32 - q - 1 ELSE Abs(x[1]) * 32 - q,
        x[2] - 5, st)
\* x + y for finite nonzero x, y with x[2] - y[2] = d >= 0
AddAligned(x, y, d) ==
  IF d > SigBits + 2 THEN x
  ELSE IF d <= 5 THEN RoundInt(x[1] * Two(d) + y[1], y[2])
  ELSE AddFar(x, y, Abs(y[1]) \div Two(d - 5), Abs(y[1]) % Two(d - 5) # 0)
\* a + b in binary32
FAdd(a, b) ==
  IF a[2] # EInf /\ b[1] = 0 /\ b[2] # EInf THEN a
  ELSE IF IsNaN(a) \/ IsNaN(b) THEN FNaN
  ELSE IF IsInf(a) THEN (IF IsInf(b) /\ b[1] # a[1] THEN FNaN ELSE a)
  ELSE IF IsInf(b) THEN b
  ELSE IF a[1] = 0 THEN b
  ELSE IF a[2] >= b[2] THEN AddAligned(a, b, a[2] - b[2])
  ELSE AddAligned(b, a, b[2] - a[2])

FSub(a, b) == FAdd(a, FNeg(b))

\* the 48-bit product hi * 2^24 + low of two significands, rounded
MulRound(s, e, hi, low) ==
  Round(s, hi * 32 + (low \div Two(19)), e, low % Two(19) # 0)
MulCarry(s, e, hi, low) ==
  MulRound(s, e, hi + (low \div Two(SigBits)), low % Two(SigBits))
MulParts(s, e, hh, mid, ll) ==
  MulCarry(s, e, hh + (mid \div 4096), (mid % 4096) * 4096 + ll)
\* the product of the significands from their 12-bit limbs
MulLimbs(s, e, ah, al, bh, bl) ==
  MulParts(s, e, ah * bh, ah * bl + al * bh, al * bl)
\* a * b in binary32
FMul(a, b) ==
  IF IsNaN(a) \/ IsNaN(b) THEN FNaN
  ELSE IF IsInf(a) \/ IsInf(b)
       THEN (IF a[1] = 0 \/ b[1] = 0 THEN FNaN ELSE FInf(Sgn(a[1]) * Sgn(b[1])))
  ELSE IF a[1] = 0 \/ b[1] = 0 THEN FZero
  ELSE MulLimbs(Sgn(a[1]) * Sgn(b[1]), a[2] + b[2] + 19,
                Abs(a[1]) \div 4096, Abs(a[1]) % 4096,
                Abs(b[1]) \div 4096, Abs(b[1]) % 4096)

\* a / float(n) in binary32, for an int 1 <= n < 64
FDivInt(a, n) ==
  IF ~IsFinite(a) THEN a
  ELSE IF a[1] = 0 THEN FZero
  ELSE Round(Sgn(a[1]), (Abs(a[1]) * 64) \div n, a[2] - 6,
             (Abs(a[1]) * 64) % n # 0)

\* a < b and a > b in binary32 (false when either is NaN)
FLess(a, b) ==
  /\ ~IsNaN(a) /\ ~IsNaN(b)
  /\ IF a[1] < 0 /\ b[1] >= 0 THEN TRUE
     ELSE IF a[1] >= 0 /\ b[1] < 0 THEN FALSE
     ELSE IF a[1] = 0 THEN b[1] > 0
     ELSE IF b[1] = 0 THEN a[1] < 0
     ELSE IF a[1] > 0
          THEN a[2] < b[2] \/ (a[2] = b[2] /\ a[1] < b[1])
          ELSE a[2] > b[2] \/ (a[2] = b[2] /\ a[1] < b[1])
FGreater(a, b) == FLess(b, a)

\* Is (int)a defined, i.e. is the truncated value inside int's range?
IntInRange(a) ==
  /\ IsFinite(a)
  /\ (a[1] = 0 \/ a[2] <= 31 - SigBits \/ a = <<-Two(SigBits - 1), 8>>)
\* (int)a: truncation toward zero
ToInt(a) ==
  IF a[1] = 0 THEN 0
  ELSE IF a[2] >= 0 THEN a[1] * Two(a[2])
  ELSE IF -a[2] >= SigBits THEN 0
  ELSE Sgn(a[1]) * (Abs(a[1]) \div Two(-a[2]))


(***************************************************************************)
(* Board, slide and action                                                 *)
(***************************************************************************)
\* board::operator()(i): the exponent in cell i, 0 <= i < 16 (0 = empty)
Cell(b, i) == b[i + 1]
\* state.tile[i / 4][i % 4] = v
SetCell(b, i, v) == [b EXCEPT ![i + 1] = v]
EmptyBoard == [i \in 1..16 |-> 0]

\* The four lines of a slide in direction op, each listed from the edge the
\* tiles move to (0 up, 1 right, 2 down, 3 left).
Lines(op) ==
  CASE op = 0 -> [c \in 1..4 |-> <<c - 1, c + 3, c + 7, c + 11>>]
    [] op = 1 -> [r \in 1..4 |-> <<4 * r - 1, 4 * r - 2, 4 * r - 3, 4 * r - 4>>]
    [] op = 2 -> [c \in 1..4 |-> <<c + 11, c + 7, c + 3, c - 1>>]
    [] op = 3 -> [r \in 1..4 |-> <<4 * r - 4, 4 * r - 3, 4 * r - 2, 4 * r - 1>>]

NonZero(x) == x # 0
\* merge equal neighbours of a compressed line c, from the edge the tiles
\* move to, each tile merging at most once
MergeLine(c) ==
  IF Len(c) >= 2 /\ c[1] = c[2]
  THEN IF Len(c) = 4 /\ c[3] = c[4]
       THEN [line |-> <<c[1] + 1, c[3] + 1>>,
             reward |-> Two(c[1] + 1) + Two(c[3] + 1)]
       ELSE [line |-> <<c[1] + 1>> \o SubSeq(c, 3, Len(c)),
             reward |-> Two(c[1] + 1)]
  ELSE IF Len(c) >= 3 /\ c[2] = c[3]
       THEN [line |-> <<c[1], c[2] + 1>> \o SubSeq(c, 4, Len(c)),
             reward |-> Two(c[2] + 1)]
       ELSE IF Len(c) = 4 /\ c[3] = c[4]
            THEN [line |-> <<c[1], c[2], c[3] + 1>>, reward |-> Two(c[3] + 1)]
            ELSE [line |-> c, reward |-> 0]
\* pad a merged line with empty cells
PadLine(m) ==
  [line |-> SubSeq(m.line \o <<0, 0, 0, 0>>, 1, 4), reward |-> m.reward]
\* one line: compress, merge, re-compress
SlideLine(l) == PadLine(MergeLine(SelectSeq(l, NonZero)))

\* the line of Lines(op) that holds cell p, and p's place in it
LineOf(op, p) == IF op = 0 \/ op = 2 THEN (p % 4) + 1 ELSE (p \div 4) + 1
PlaceOf(op, p) ==
  CASE op = 0 -> (p \div 4) + 1
    [] op = 1 -> 4 - (p % 4)
    [] op = 2 -> 4 - (p \div 4)
    [] op = 3 -> (p % 4) + 1

\* the cells of line k of the slide op, from the edge the tiles move to
LineCells(b, op, k) ==
  <<Cell(b, Lines(op)[k][1]), Cell(b, Lines(op)[k][2]),
    Cell(b, Lines(op)[k][3]), Cell(b, Lines(op)[k][4])>>
\* the board whose lines are the slid lines res
Moved(op, res) ==
  [p \in 1..16 |-> res[LineOf(op, p - 1)].line[PlaceOf(op, p - 1)]]
\* the result of a slide that turns b into after and merges tiles worth total
SlideResult(b, after, total) ==
  [after |-> after, reward |-> IF after = b THEN -1 ELSE total]
SlideLines(b, op, res) ==
  SlideResult(b, Moved(op, res),
              res[1].reward + res[2].reward + res[3].reward + res[4].reward)
\* board::slide(op): the board after the slide and its reward, -1 (and the
\* board unchanged) when no tile moves
Slide(b, op) ==
  SlideLines(b, op, << SlideLine(LineCells(b, op, 1)),
                       SlideLine(LineCells(b, op, 2)),
                       SlideLine(LineCells(b, op, 3)),
                       SlideLine(LineCells(b, op, 4)) >>)

\* action::slide(op) and action(): a tagged value
ActionSlide(op) == <<"slide", op>>
ActionNull == <<"null", 0>>

(***************************************************************************)
(* The n-tuple network                                                     *)
(***************************************************************************)
\* number of exponent values a cell of a tuple can show
V == 31
\* net.size() after init_weights: 24 five-cell and 8 four-cell tables
NumTuples == 32

\* extract_feature with one factor of the second cell's weight dropped
extract_feature_Typo(after, a, b, c, d, e) ==
  Cell(after, a) * V * V * V * V + Cell(after, b) * V * V
    + Cell(after, c) * V * V + Cell(after, d) * V + Cell(after, e)
\* extract_feature(after, a, b, c, d, e)
extract_feature(after, a, b, c, d, e) ==
  Cell(after, a) * V * V * V * V + Cell(after, b) * V * V * V
    + Cell(after, c) * V * V + Cell(after, d) * V + Cell(after, e)
\* extract_feature2(after, a, b, c, d)
extract_feature2(after, a, b, c, d) ==
  Cell(after, a) * V * V * V + Cell(after, b) * V * V
    + Cell(after, c) * V + Cell(after, d)

\* the earlier agent: 25 exponent values, 24 five-cell tables
V25 == 25
NumTuples25 == 24
\* extract_feature(after, a, b, c, d, e) of the earlier agent
extract_feature25(after, a, b, c, d, e) ==
  Cell(after, a) * V25 * V25 * V25 * V25 + Cell(after, b) * V25 * V25 * V25
    + Cell(after, c) * V25 * V25 + Cell(after, d) * V25 + Cell(after, e)

\* the cell lists of estimate_value's 32 lookups, net[0] .. net[31]
EstTuples ==
<< <<0, 1, 2, 3, 4>>,
   <<5, 6, 7, 10, 11>>,
   <<8, 9, 12, 13, 14>>,
   <<0, 1, 2, 3, 7>>,
   <<4, 5, 6, 8, 9>>,
   <<10, 11, 13, 14, 15>>,
   <<1, 2, 3, 6, 7>>,
   <<4, 5, 8, 9, 10>>,
   <<11, 12, 13, 14, 15>>,
   <<0, 1, 2, 4, 5>>,
   <<6, 7, 9, 10, 11>>,
   <<8, 12, 13, 14, 15>>,
   <<0, 4, 8, 12, 13>>,
   <<1, 2, 5, 6, 9>>,
   <<7, 10, 11, 14, 15>>,
   <<0, 1, 4, 8, 12>>,
   <<5, 9, 10, 13, 14>>,
   <<2, 3, 6, 7, 11>>,
   <<2, 3, 7, 11, 15>>,
   <<6, 9, 10, 13, 14>>,
   <<0, 1, 4, 5, 8>>,
   <<3, 7, 11, 14, 15>>,
   <<1, 2, 5, 6, 10>>,
   <<4, 8, 9, 12, 13>>,
   <<0, 1, 2, 3>>,
   <<4, 5, 6, 7>>,
   <<8, 9, 10, 11>>,
   <<12, 13, 14, 15>>,
   <<0, 4, 8, 12>>,
   <<1, 5, 9, 13>>,
   <<2, 6, 10, 14>>,
   <<3, 7, 11, 15>> >>

\* the tuples of adjust_value with cell 12 written for cell 11 in net[1]
AdjTuples_Typo == [EstTuples EXCEPT ![2] = <<5, 6, 7, 10, 12>>]
\* the cell lists of adjust_value's 32 updates, net[0] .. net[31]
AdjTuples ==
<< <<0, 1, 2, 3, 4>>,
   <<5, 6, 7, 10, 11>>,
   <<8, 9, 12, 13, 14>>,
   <<0, 1, 2, 3, 7>>,
   <<4, 5, 6, 8, 9>>,
   <<10, 11, 13, 14, 15>>,
   <<1, 2, 3, 6, 7>>,
   <<4, 5, 8, 9, 10>>,
   <<11, 12, 13, 14, 15>>,
   <<0, 1, 2, 4, 5>>,
   <<6, 7, 9, 10, 11>>,
   <<8, 12, 13, 14, 15>>,
   <<0, 4, 8, 12, 13>>,
   <<1, 2, 5, 6, 9>>,
   <<7, 10, 11, 14, 15>>,
   <<0, 1, 4, 8, 12>>,
   <<5, 9, 10, 13, 14>>,
   <<2, 3, 6, 7, 11>>,
   <<2, 3, 7, 11, 15>>,
   <<6, 9, 10, 13, 14>>,
   <<0, 1, 4, 5, 8>>,
   <<3, 7, 11, 14, 15>>,
   <<1, 2, 5, 6, 10>>,
   <<4, 8, 9, 12, 13>>,
   <<0, 1, 2, 3>>,
   <<4, 5, 6, 7>>,
   <<8, 9, 10, 11>>,
   <<12, 13, 14, 15>>,
   <<0, 4, 8, 12>>,
   <<1, 5, 9, 13>>,
   <<2, 6, 10, 14>>,
   <<3, 7, 11, 15>> >>

\* the index a cell list selects in its table
Feature(after, tup) ==
  IF Len(tup) = 5
  THEN extract_feature(after, tup[1], tup[2], tup[3], tup[4], tup[5])
  ELSE extract_feature2(after, tup[1], tup[2], tup[3], tup[4])

\* net: one table per tuple.  A table is kept sparse: tab[t + 1] maps the
\* indices whose weight differs from dflt to that weight, and every other
\* entry of every table holds dflt (0.0f after init_weights).
Weight(w, t, i) ==
  IF i \in DOMAIN w.tab[t + 1] THEN w.tab[t + 1][i] ELSE w.dflt
SetWeight(w, t, i, v) ==
  [w EXCEPT !.tab[t + 1] = IF v = w.dflt
                           THEN [k \in DOMAIN @ \ {i} |-> @[k]]
                           ELSE (i :> v) @@ @]
NoEntries == [k \in {} |-> FZero]
\* init_weights: 32 tables of zeroes
NoWeights == [dflt |-> FZero, tab |-> [t \in 1..NumTuples |-> NoEntries]]

\* net[t][extract_feature(after, ...)]
Lookup(w, after, t) == Weight(w, t, Feature(after, EstTuples[t + 1]))
\* value after the additions for net[t] .. net[t + 3]
Add4(w, after, t, value) ==
  FAdd(FAdd(FAdd(FAdd(value, Lookup(w, after, t)), Lookup(w, after, t + 1)),
            Lookup(w, after, t + 2)), Lookup(w, after, t + 3))
RECURSIVE EstimateFrom(_, _, _, _)
\* value after the additions for net[t] .. net[31] (a NaN stays a NaN)
EstimateFrom(w, after, t, value) ==
  IF t >= NumTuples \/ IsNaN(value) THEN value
  ELSE EstimateFrom(w, after, t + 4, Add4(w, after, t, value))
\* estimate_value(after): value starts at 0.0 and one weight per table is
\* added, net[0] first and net[31] last
estimate_value(w, after) == EstimateFrom(w, after, 0, FZero)

\* err taken as cur - target
AdjustAmount_Negated(w, a, after, target) ==
  FMul(a, FSub(estimate_value(w, after), FromInt(target)))
\* the scalar adjust_value adds: alpha * (target - estimate_value(after)),
\* target being an int
AdjustAmount(w, a, after, target) ==
  FMul(a, FSub(FromInt(target), estimate_value(w, after)))
\* net[t][i] += adjust
AddTo(w, t, i, adjust) == SetWeight(w, t, i, FAdd(Weight(w, t, i), adjust))
RECURSIVE AdjustFrom(_, _, _, _)
\* the weights after the updates of net[t] .. net[31]
AdjustFrom(w, after, t, adjust) ==
  IF t >= Len(w.tab) THEN w
  ELSE AdjustFrom(AddTo(w, t, Feature(after, AdjTuples[t + 1]), adjust),
                  after, t + 1, adjust)
\* adjust_value(after, target): the weights after the call; adjust is
\* computed once, before net[0] .. net[31] are updated in this order
adjust_value(w, a, after, target) ==
  AdjustFrom(w, after, 0, AdjustAmount(w, a, after, target))


(***************************************************************************)
(* TD_player                                                               *)
(***************************************************************************)
\* opcode = {0, 1, 2, 3}
opcode == <<0, 1, 2, 3>>
\* float(0.9) and float(0.1)
F09 == <<15099494, -24>>
F01 == <<13421773, -27>>

\* empty_tile: the empty cells of after, ascending
empty_tile(after) ==
  LET IsEmpty(i) == Cell(after, i) = 0
  IN SelectSeq(<<0, 1, 2, 3, 4, 5, 6, 7, 8, 9, 10, 11, 12, 13, 14, 15>>,
               IsEmpty)

\* does the candidate (reward, value) beat the best so far?
\*   w_reward + w_value > best_reward + best_value
Better(w_reward, w_value, best_reward, best_value) ==
  FGreater(FAdd(FromInt(w_reward), w_value),
           FAdd(FromInt(best_reward), best_value))
\* the best so far after the candidate c was compared (a NaN sum never
\* compares greater)
PickBetter(c, best) ==
  IF IsNaN(c.value) THEN best
  ELSE IF Better(c.reward, c.value, best.reward, best.value) THEN c
  ELSE best

\* one pass of expect_value's inner loop: s is the spawned board slid
ReplyTo(w, s, best) ==
  IF s.reward < 0 THEN best
  ELSE PickBetter([reward |-> s.reward,
                   value |-> estimate_value(w, s.after)], best)
RECURSIVE BestReplyFrom(_, _, _, _)
\* (a NaN best_value is never beaten)
BestReplyFrom(w, state, k, best) ==
  IF k > Len(opcode) \/ IsNaN(best.value) THEN best
  ELSE BestReplyFrom(w, state, k + 1,
                     ReplyTo(w, Slide(state, opcode[k]), best))
\* the inner loop of expect_value over the four replies to one spawn:
\* best_reward and best_value after it
BestReply(w, state) ==
  BestReplyFrom(w, state, 1, [reward |-> -1, value |-> FNeg(FltMax)])

\* value += (0.9f * best_value1) / num_empty;
\* value += (0.1f * best_value2) / num_empty     (a NaN term makes value NaN)
SpawnAdd(value, num_empty, best_value1, best_value2) ==
  IF IsNaN(best_value1) \/ IsNaN(best_value2) THEN FNaN
  ELSE FAdd(FAdd(value, FDivInt(FMul(F09, best_value1), num_empty)),
            FDivInt(FMul(F01, best_value2), num_empty))
\* value after the pass of expect_value's loop for the empty cell i
SpawnTerm(w, after, i, num_empty, value) ==
  SpawnAdd(value, num_empty, BestReply(w, SetCell(after, i, 1)).value,
           BestReply(w, SetCell(after, i, 2)).value)

RECURSIVE ExpectFrom(_, _, _, _, _)
\* (a NaN stays a NaN)
ExpectFrom(w, after, cells, k, value) ==
  IF k > Len(cells) \/ IsNaN(value) THEN value
  ELSE ExpectFrom(w, after, cells, k + 1,
                  SpawnTerm(w, after, cells[k], Len(cells), value))
\* expect_value(after)
expect_value(w, after) == ExpectFrom(w, after, empty_tile(after), 1, FZero)

\* one pass of take_action's loop: s is before slid in direction op
MoveTo(w, op, s, best) ==
  IF s.reward < 0 THEN best
  ELSE PickBetter([op |-> op, reward |-> s.reward,
                   value |-> expect_value(w, s.after), after |-> s.after],
                  best)
RECURSIVE ChooseFrom(_, _, _, _)
\* (a NaN best_value is never beaten)
ChooseFrom(w, before, k, best) ==
  IF k > Len(opcode) \/ IsNaN(best.value) THEN best
  ELSE ChooseFrom(w, before, k + 1,
                  MoveTo(w, opcode[k], Slide(before, opcode[k]), best))
\* the loop of take_action: best_op, best_reward, best_value, best_after
BestMove(w, before) ==
  ChooseFrom(w, before, 1,
    [op |-> -1, reward |-> -1, value |-> FNeg(FltMax), after |-> EmptyBoard])

\* take_action pushing a step whether or not a direction was chosen
PushStep_Always(h, best) ==
  Append(h, [reward |-> best.reward, after |-> best.after])
\* history after take_action(before)
PushStep(h, best) ==
  IF best.op # -1 THEN Append(h, [reward |-> best.reward, after |-> best.after])
  ELSE h
\* what take_action(before) returns
TakeActionResult(best) == ActionSlide(best.op)

\* (int)f, with ub standing for what an out-of-range conversion yields
ToIntUB(f, ub) == IF IntInRange(f) THEN ToInt(f) ELSE ub
UBInts == {IntMin, 0, IntMax}

RECURSIVE TotalReward(_, _, _, _)
\* total_reward after the loop over j = 1 .. n_step (h is 1-based: step i is
\* h[i + 1])
TotalReward(h, n, i, j) ==
  IF j > n \/ i + j >= Len(h) THEN 0
  ELSE h[i + j + 1].reward + TotalReward(h, n, i, j + 1)

\* adjust_value(history[i].after, total_reward + estimate_value(...)): the
\* float sum f is converted to the int parameter target
BootCall(i, ub, e, f) ==
  [step |-> i, target |-> ToIntUB(f, ub), boot |-> TRUE, est |-> e, sum |-> f]
BootWith(i, ub, total, e) == BootCall(i, ub, e, FAdd(FromInt(total), e))
\* adjust_value(history[i].after, total_reward)
PlainCall(i, total) ==
  [step |-> i, target |-> total, boot |-> FALSE, est |-> FZero,
   sum |-> FromInt(total)]
\* the adjust_value call close_episode makes for step i (0 <= i <= size - 2)
StepCall(w, h, n, i, ub) ==
  IF i + n >= Len(h) THEN PlainCall(i, TotalReward(h, n, i, 1))
  ELSE BootWith(i, ub, TotalReward(h, n, i, 1),
                estimate_value(w, h[i + n + 1].after))
\* the first adjust_value call of close_episode: history.back() toward 0
TerminalCall(h) == PlainCall(Len(h) - 1, 0)

\* the weights and the log after the call c was made on the afterstate after
ApplyCall(st, a, after, c) ==
  [net |-> adjust_value(st.net, a, after, c.target), log |-> Append(st.log, c)]
RECURSIVE BackwardFrom(_, _, _, _, _)
\* the loop of close_episode; the call for step i = size - 1 - k is made
\* when k calls were made
BackwardFrom(st, a, h, n, ub) ==
  IF Len(st.log) >= Len(h) THEN st
  ELSE BackwardFrom(
         ApplyCall(st, a, h[Len(h) - Len(st.log)].after,
                   StepCall(st.net, h, n, Len(h) - Len(st.log) - 1, ub)),
         a, h, n, ub)

\* close_episode without its two early returns (on an empty history the
\* value-initialised board stands for history.back().after)
close_episode_NoReturn(w, a, h, n, ub) ==
  BackwardFrom(ApplyCall([net |-> w, log |-> <<>>], a,
                         IF Len(h) = 0 THEN EmptyBoard ELSE h[Len(h)].after,
                         TerminalCall(h)),
               a, h, n, ub)
RECURSIVE BackwardStale(_, _, _, _, _, _)
BackwardStale(w0, st, a, h, n, ub) ==
  IF Len(st.log) >= Len(h) THEN st
  ELSE BackwardStale(w0,
         ApplyCall(st, a, h[Len(h) - Len(st.log)].after,
                   StepCall(w0, h, n, Len(h) - Len(st.log) - 1, ub)),
         a, h, n, ub)
\* close_episode with every bootstrap estimate taken from the weights the
\* pass started with
close_episode_Stale(w, a, h, n, ub) ==
  IF Len(h) = 0 THEN [net |-> w, log |-> <<>>]
  ELSE IF a = FZero THEN [net |-> w, log |-> <<>>]
  ELSE BackwardStale(w, ApplyCall([net |-> w, log |-> <<>>], a,
                                  h[Len(h)].after, TerminalCall(h)),
                     a, h, n, ub)
\* close_episode: the weights after it and the adjust_value calls it made
close_episode(w, a, h, n, ub) ==
  IF Len(h) = 0 THEN [net |-> w, log |-> <<>>]
  ELSE IF a = FZero THEN [net |-> w, log |-> <<>>]
  ELSE BackwardFrom(ApplyCall([net |-> w, log |-> <<>>], a,
                              h[Len(h)].after, TerminalCall(h)),
                    a, h, n, ub)


(***************************************************************************)
(* rndenv                                                                  *)
(***************************************************************************)
ActionPlace(pos, tile) == <<"place", pos, tile>>
\* popup(0, 9): what popup(engine) can return
Popups == 0..9
\* popup(engine) ? 1 : 2
PopupTile(draw) == IF draw # 0 THEN 1 ELSE 2
\* the loop returning at the first entry of space, empty or not
FirstEmpty_NoSkip(after, sp, k) == sp[k]
RECURSIVE FirstEmpty(_, _, _)
\* the loop over space from its k-th entry on: the first position that is
\* empty on after, -1 when the loop ends without one
FirstEmpty(after, sp, k) ==
  IF k > Len(sp) THEN -1
  ELSE IF Cell(after, sp[k]) # 0 THEN FirstEmpty(after, sp, k + 1)
  ELSE sp[k]
\* rndenv::take_action(after), sp being space as std::shuffle left it and
\* draw what popup(engine) returns
rndenv_take_action(after, sp, draw) ==
  IF FirstEmpty(after, sp, 1) = -1 THEN ActionNull
  ELSE ActionPlace(FirstEmpty(after, sp, 1), PopupTile(draw))
\* space rotated left by r places, and reversed
Rotated(sp, r) == [k \in 1..Len(sp) |-> sp[((k - 1 + r) % Len(sp)) + 1]]
Reversed(sp) == [k \in 1..Len(sp) |-> sp[Len(sp) + 1 - k]]
\* orders std::shuffle can leave space in (of the 16! it can produce)
Shuffles(sp) == {Rotated(sp, r) : r \in 0..(Len(sp) - 1)} \cup {Reversed(sp)}

(***************************************************************************)
(* Inputs and bounds                                                       *)
(***************************************************************************)
\* how many take_action, close_episode, open_episode and direct
\* adjust_value calls one run makes at most, and the largest horizon n
MaxTake == 2
MaxClose == 2
MaxOpen == 1
MaxAdjust == 2
MaxN == 2
\* how many take_action calls the environment answers at most
MaxEnv == 2
\* how many feature indices are extracted at most
MaxFeature == 2

\* no slide is legal
BoardStuck == <<1, 2, 1, 2,  2, 1, 2, 1,  1, 2, 1, 2,  2, 1, 2, 1>>
\* up (reward 0), right and left (reward 4) are legal; down is not
BoardRich == <<1, 1, 2, 0,  2, 3, 1, 3,  1, 2, 3, 1,  2, 1, 2, 3>>
\* up and left are legal (reward 0), both leave two empty cells
BoardTwo == <<0, 3, 4, 3,  0, 4, 3, 4,  4, 3, 4, 3,  3, 4, 3, 4>>
Boards == {BoardStuck, BoardRich, BoardTwo}

\* alpha: 0 (the default), 2^-6, and float(0.1)
Alpha64 == <<8388608, -29>>
Alpha01 == F01

\* A weight file load_weights can read: 0.5 where table 24 is indexed by
\* BoardRich slid right, 1 + 2^-23 where table 0 is indexed by BoardRich,
\* and 0.5 where table 1 is indexed by the empty board.
Loaded ==
  LET w1 == SetWeight(NoWeights, 24,
                      Feature(Slide(BoardRich, 1).after, EstTuples[25]),
                      <<8388608, -24>>)
      w2 == SetWeight(w1, 0, Feature(BoardRich, EstTuples[1]),
                      <<8388609, -23>>)
  IN SetWeight(w2, 1, Feature(EmptyBoard, EstTuples[2]), <<8388608, -24>>)
\* A weight file whose every weight is -2^123: every estimate overflows to
\* -infinity
Diverged == [NoWeights EXCEPT !.dflt = <<-8388608, 100>>]

\* the agents checked: the weights after init_weights or load_weights,
\* alpha, and n_step
Configs ==
  { [net |-> w, alpha |-> Alpha64, n_step |-> n] :
      w \in {NoWeights, Loaded}, n \in 1..MaxN }
  \cup { [net |-> w, alpha |-> FZero, n_step |-> 1] :
           w \in {Loaded, Diverged} }

\* the agents and the targets adjust_value is checked with on its own
AdjustConfigs ==
  { [net |-> w, alpha |-> a, n_step |-> 1] :
      w \in {NoWeights, Loaded}, a \in {Alpha64, Alpha01} }
Targets == {0, 1, 4}
\* the boards the environment is asked about: full, one, two and sixteen
\* empty cells
EnvBoards == Boards \cup {EmptyBoard}

\* boards whose exponents cover [0, base): all zero, all base - 1, rising
\* from 0, falling from base - 1, and one cell of a fixed board varied
Uniform(x) == [i \in 1..16 |-> x]
Rising == [i \in 1..16 |-> i - 1]
Falling(base) == [i \in 1..16 |-> base - i]
FeatureBoards(base) ==
  {EmptyBoard, Uniform(base - 1), Rising, Falling(base), BoardRich}
    \cup {[BoardRich EXCEPT ![6] = x] : x \in {0, base - 1}}
\* the exponent ranges and table numbers of the two agents
Bases == {V, V25}
TablesOf(base) == IF base = V THEN 0..(NumTuples - 1) ELSE 0..(NumTuples25 - 1)
\* the index table t is read at
FeatureIndex(base, after, t) ==
  IF base = V
  THEN Feature(after, EstTuples[t + 1])
  ELSE extract_feature25(after, EstTuples[t + 1][1], EstTuples[t + 1][2],
                         EstTuples[t + 1][3], EstTuples[t + 1][4],
                         EstTuples[t + 1][5])

(***************************************************************************)
(* The agent as a state machine                                            *)
(***************************************************************************)
VARIABLES
  net,      \* weight_agent::net
  alpha,    \* weight_agent::alpha
  n_step,   \* TD_player::n_step
  history,  \* TD_player::history
  space,    \* rndenv::space
  last,     \* the last call: its name, argument and result, the weights and
            \* the history before it, and the adjust_value calls it made
  count     \* how many calls of each kind were made

vars == <<net, alpha, n_step, history, space, last, count>>

NoCall == [op |-> "new", prev |-> "new", board |-> EmptyBoard, target |-> 0,
           ret |-> ActionNull, net0 |-> NoWeights, hist0 |-> <<>>,
           log |-> <<>>]

InitWith(cfgs) ==
  /\ \E c \in cfgs : net = c.net /\ alpha = c.alpha /\ n_step = c.n_step
  /\ history = <<>>
  /\ space = <<0, 1, 2, 3, 4, 5, 6, 7, 8, 9, 10, 11, 12, 13, 14, 15>>
  /\ last = NoCall
  /\ count = [take |-> 0, close |-> 0, open |-> 0, adjust |-> 0, env |-> 0,
              feature |-> 0]

Init == InitWith(Configs)

Called(op, board, target, ret, log) ==
  [op |-> op, prev |-> last.op, board |-> board, target |-> target,
   ret |-> ret, net0 |-> net, hist0 |-> history, log |-> log]

\* open_episode()
OpenEpisode ==
  /\ count.open < MaxOpen
  /\ history' = <<>>
  /\ last' = Called("open", EmptyBoard, 0, ActionNull, <<>>)
  /\ count' = [count EXCEPT !.open = @ + 1]
  /\ UNCHANGED <<net, alpha, n_step, space>>

\* take_action(before) that also adjusts the chosen afterstate toward its
\* reward at once
TakeAction_Learns(before) ==
  /\ count.take < MaxTake
  /\ LET best == BestMove(net, before)
     IN /\ history' = PushStep(history, best)
        /\ last' = Called("take", before, 0, TakeActionResult(best), <<>>)
        /\ net' = IF best.op # -1
                  THEN adjust_value(net, alpha, best.after, best.reward)
                  ELSE net
  /\ count' = [count EXCEPT !.take = @ + 1]
  /\ UNCHANGED <<alpha, n_step, space>>
\* take_action(before)
TakeAction(before) ==
  /\ count.take < MaxTake
  /\ LET best == BestMove(net, before)
     IN /\ history' = PushStep(history, best)
        /\ last' = Called("take", before, 0, TakeActionResult(best), <<>>)
  /\ count' = [count EXCEPT !.take = @ + 1]
  /\ UNCHANGED <<net, alpha, n_step, space>>

\* did a call of the log convert a float outside int's range?
OutOfRange(log) ==
  \E k \in DOMAIN log : log[k].boot /\ ~IntInRange(log[k].sum)

\* close_episode(); only a pass that converts a float outside int's range
\* depends on ub
CloseEpisode ==
  /\ count.close < MaxClose
  /\ LET r0 == close_episode(net, alpha, history, n_step, 0)
     IN \E ub \in (IF OutOfRange(r0.log) THEN UBInts ELSE {0}) :
          LET r == IF ub = 0 THEN r0
                   ELSE close_episode(net, alpha, history, n_step, ub)
          IN /\ net' = r.net
             /\ last' = Called("close", EmptyBoard, 0, ActionNull, r.log)
  /\ count' = [count EXCEPT !.close = @ + 1]
  /\ UNCHANGED <<alpha, n_step, history, space>>

Next ==
  \/ OpenEpisode
  \/ \E before \in Boards : TakeAction(before)
  \/ CloseEpisode

Spec == Init /\ [][Next]_vars

\* adjust_value(after, target) called on its own
AdjustValue(after, target) ==
  /\ count.adjust < MaxAdjust
  /\ net' = adjust_value(net, alpha, after, target)
  /\ last' = Called("adjust", after, target, ActionNull, <<>>)
  /\ count' = [count EXCEPT !.adjust = @ + 1]
  /\ UNCHANGED <<alpha, n_step, history, space>>

\* rndenv::take_action(after)
EnvTakeAction(after) ==
  /\ count.env < MaxEnv
  /\ \E sp \in Shuffles(space), draw \in Popups :
       /\ space' = sp
       /\ last' = Called("env", after, 0, rndenv_take_action(after, sp, draw),
                         <<>>)
  /\ count' = [count EXCEPT !.env = @ + 1]
  /\ UNCHANGED <<net, alpha, n_step, history>>

\* the index estimate_value reads table t at, for either agent
ExtractFeature(base, after, t) ==
  /\ count.feature < MaxFeature
  /\ last' = Called("feature", after, t,
                    <<"index", base, FeatureIndex(base, after, t)>>, <<>>)
  /\ count' = [count EXCEPT !.feature = @ + 1]
  /\ UNCHANGED <<net, alpha, n_step, history, space>>

InitFeature == InitWith({[net |-> NoWeights, alpha |-> FZero, n_step |-> 1]})

NextFeature ==
  \E base \in Bases : \E after \in FeatureBoards(base), t \in TablesOf(base) :
    ExtractFeature(base, after, t)

SpecFeature == InitFeature /\ [][NextFeature]_vars

InitEnv == InitWith({[net |-> NoWeights, alpha |-> FZero, n_step |-> 1]})

NextEnv == \E after \in EnvBoards : EnvTakeAction(after)

SpecEnv == InitEnv /\ [][NextEnv]_vars

InitAdjust == InitWith(AdjustConfigs)

NextAdjust == \E after \in Boards, target \in Targets : AdjustValue(after, target)

SpecAdjust == InitAdjust /\ [][NextAdjust]_vars

(***************************************************************************)
(* Properties                                                              *)
(***************************************************************************)
\* the directions take_action does not skip on b
Legal(b) == {op \in 0..3 : Slide(b, op).reward >= 0}
RECURSIVE SumRewards(_, _, _)
\* the rewards recorded at steps from .. to (step i is h[i + 1])
SumRewards(h, from, to) ==
  IF from > to THEN 0 ELSE h[from + 1].reward + SumRewards(h, from + 1, to)

\* the call c of a pass over h with horizon n has the n-step return as its
\* target: the rewards of steps i+1 .. min(i+n, L-1), plus the estimate of
\* step i+n's afterstate exactly when i+n <= L-1
NStepTarget(h, n, c) ==
  /\ c.boot = (c.step + n <= Len(h) - 1)
  /\ c.sum = IF c.boot
             THEN FAdd(FromInt(SumRewards(h, c.step + 1, c.step + n)), c.est)
             ELSE FromInt(SumRewards(h, c.step + 1, Len(h) - 1))
  /\ FromInt(c.target) = c.sum

\* C1: close_episode on a history of L >= 2 steps adjusts every non-terminal
\* step i toward exactly the sum of the rewards of steps i+1 .. min(i+n, L-1)
\* plus, when i+n <= L-1, the estimate of the afterstate of step i+n.
C1_TargetIsNStepReturn ==
  (last.op = "close" /\ Len(last.hist0) >= 2) =>
    \A k \in DOMAIN last.log :
      last.log[k].step <= Len(last.hist0) - 2
        => NStepTarget(last.hist0, n_step, last.log[k])

\* C2: close_episode on an empty history, or with alpha = 0, makes no
\* adjust_value call and leaves every entry of every table as it was.
C2_NoOpClose ==
  (last.op = "close" /\ (last.hist0 = <<>> \/ alpha = FZero)) =>
    (net = last.net0 /\ last.log = <<>>)
C2_Witness ==
  /\ last.op = "close"
  /\ alpha = FZero
  /\ Len(last.hist0) = 2
  /\ net = Loaded

RECURSIVE Replayed(_, _, _, _, _)
\* the weights after the first k calls of log were applied to w
Replayed(w, a, h, log, k) ==
  IF k = 0 THEN w
  ELSE adjust_value(Replayed(w, a, h, log, k - 1), a, h[log[k].step + 1].after,
                    log[k].target)
\* the k-th call of the pass is the call for step L - k; the first is toward
\* 0; a bootstrap estimate is read from the weights as the k - 1 earlier
\* calls left them
InPassOrder(w0, a, h, n, log, k) ==
  /\ log[k].step = Len(h) - k
  /\ (k = 1 => (log[k].target = 0 /\ ~log[k].boot))
  /\ (log[k].boot =>
        log[k].est = estimate_value(Replayed(w0, a, h, log, k - 1),
                                    h[log[k].step + n + 1].after))

\* C3: with a non-empty history and alpha # 0, close_episode calls
\* adjust_value once per recorded step, from the most recent step to the
\* earliest; the most recent step is adjusted toward 0, and the bootstrap
\* estimate for step i is read after the adjustments of all later steps.
C3_BackwardPass ==
  (last.op = "close" /\ last.hist0 # <<>> /\ alpha # FZero) =>
    /\ Len(last.log) = Len(last.hist0)
    /\ \A k \in DOMAIN last.log :
         InPassOrder(last.net0, alpha, last.hist0, n_step, last.log, k)
    /\ net = Replayed(last.net0, alpha, last.hist0, last.log, Len(last.log))
C3_Witness ==
  /\ last.op = "close"
  /\ alpha # FZero
  /\ Len(last.log) = 2
  /\ last.log[2].boot
  /\ last.log[2].est # estimate_value(last.net0, last.hist0[2].after)

\* reward + lookahead of the slide s
Score(w, s) == FAdd(FromInt(s.reward), expect_value(w, s.after))
\* the first direction, in the order of opcode, among the legal directions
\* of highest score
FirstBest(w, b, k, op, score) ==
  IF Slide(b, opcode[k]).reward < 0 THEN [op |-> op, score |-> score]
  ELSE IF op = -1 \/ FGreater(Score(w, Slide(b, opcode[k])), score)
       THEN [op |-> opcode[k], score |-> Score(w, Slide(b, opcode[k]))]
       ELSE [op |-> op, score |-> score]
RECURSIVE ArgmaxFrom(_, _, _, _)
ArgmaxFrom(w, b, k, best) ==
  IF k > Len(opcode) THEN best
  ELSE ArgmaxFrom(w, b, k + 1, FirstBest(w, b, k, best.op, best.score))
Argmax(w, b) == ArgmaxFrom(w, b, 1, [op |-> -1, score |-> FZero]).op

\* C4: on a board with a legal direction, take_action returns the slide in
\* the legal direction of highest reward + lookahead, the first such
\* direction in the order 0, 1, 2, 3.
C4_ReturnsBestLegal ==
  (last.op = "take" /\ Legal(last.board) # {}) =>
    last.ret = ActionSlide(Argmax(last.net0, last.board))

\* C5: on a board with no legal direction, take_action returns the null
\* action, not a slide, and leaves the history as it was.
C5_NullWhenStuck ==
  (last.op = "take" /\ Legal(last.board) = {}) =>
    (last.ret = ActionNull /\ history = last.hist0)

\* best(b): the highest reward + estimate over the legal directions of b
BestOf(w, b) ==
  CHOOSE v \in {FAdd(FromInt(Slide(b, op).reward),
                     estimate_value(w, Slide(b, op).after)) : op \in Legal(b)} :
    \A op \in Legal(b) :
      ~FGreater(FAdd(FromInt(Slide(b, op).reward),
                     estimate_value(w, Slide(b, op).after)), v)
RECURSIVE ExpectedFrom(_, _, _, _, _)
\* the sum over the empty cells, from the k-th on, of
\* (0.9 * best(2-tile at the cell) + 0.1 * best(4-tile at the cell)) / n
ExpectedFrom(w, after, cells, k, value) ==
  IF k > Len(cells) THEN value
  ELSE ExpectedFrom(w, after, cells, k + 1,
         SpawnAdd(value, Len(cells), BestOf(w, SetCell(after, cells[k], 1)),
                  BestOf(w, SetCell(after, cells[k], 2))))
expectedValue(w, after) == ExpectedFrom(w, after, empty_tile(after), 1, FZero)
\* every tile spawned on after leaves a legal direction
Playable(after) ==
  \A i \in 0..15 : Cell(after, i) = 0 =>
    (Legal(SetCell(after, i, 1)) # {} /\ Legal(SetCell(after, i, 2)) # {})

StepOf(b, op) == [reward |-> Slide(b, op).reward, after |-> Slide(b, op).after]

\* C7: open_episode leaves the history empty, and a take_action call appends
\* exactly one step, the reward and the afterstate of the direction it
\* returned and nothing else, when it returned a real slide, and nothing
\* otherwise: the history is the sequence of these steps in call order.
C7_HistoryRecordsSlides ==
  /\ last.op = "open" => history = <<>>
  /\ last.op = "take" =>
       history = IF last.ret[1] = "slide" /\ last.ret[2] \in 0..3
                 THEN Append(last.hist0, StepOf(last.board, last.ret[2]))
                 ELSE last.hist0
C7_Witness ==
  /\ last.op = "take"
  /\ Len(last.hist0) = 1
  /\ Len(history) = 2
  /\ history[2].reward > 0
  /\ count.open = 1

\* C8: a close_episode that directly follows a close_episode changes no
\* weight.
C8_SecondCloseIsNoOp ==
  (last.op = "close" /\ last.prev = "close") => net = last.net0
\* the weight table t reads and writes for the board after
IndexOf(after, t) == Feature(after, EstTuples[t + 1])
\* the entries of table t that either w or v holds besides the default
Entries(w, v, t) == DOMAIN w.tab[t + 1] \cup DOMAIN v.tab[t + 1]

\* C9: adjust_value(after, target) adds alpha * (target - estimate), the
\* estimate being the one before the call, to the entry of each table that
\* estimate_value reads for after, and changes no other entry of any table.
C9_AdjustFrame ==
  last.op = "adjust" =>
    /\ net.dflt = last.net0.dflt
    /\ \A t \in 0..(NumTuples - 1) :
         /\ Weight(net, t, IndexOf(last.board, t))
              = FAdd(Weight(last.net0, t, IndexOf(last.board, t)),
                     FMul(alpha, FSub(FromInt(last.target),
                                      estimate_value(last.net0, last.board))))
         /\ \A i \in Entries(net, last.net0, t) \ {IndexOf(last.board, t)} :
              Weight(net, t, i) = Weight(last.net0, t, i)
C9_Witness ==
  /\ last.op = "adjust"
  /\ last.prev = "adjust"
  /\ last.net0 # NoWeights
  /\ net # last.net0

\* est1 lies strictly between est0 and target
StrictlyCloser(est0, est1, target) ==
  \/ FLess(est0, est1) /\ FLess(est1, target)
  \/ FLess(target, est1) /\ FLess(est1, est0)

\* C10: one adjust_value(after, target) call with 0 < alpha and
\* alpha * 32 < 1 on a board whose estimate is not target moves the estimate
\* strictly toward target, without passing it.
C10_AdjustShrinksError ==
  ( /\ last.op = "adjust"
    /\ FGreater(alpha, FZero)
    /\ FLess(FMul(alpha, FromInt(NumTuples)), FromInt(1))
    /\ estimate_value(last.net0, last.board) # FromInt(last.target) )
  => StrictlyCloser(estimate_value(last.net0, last.board),
                    estimate_value(net, last.board), FromInt(last.target))

\* Exact arithmetic on the floats that are multiples of 1 / Grid and smaller
\* than 64 in magnitude: Fix(a) is a * Grid
GridBits == SigBits \div 2
Grid == Two(GridBits)
OnGrid(a) ==
  /\ IsFinite(a)
  /\ \/ a[1] = 0
     \/ /\ a[2] + GridBits <= -(GridBits \div 2)
        /\ a[2] + GridBits >= -SigBits
        /\ a[2] + GridBits < 0 => a[1] % Two(-(a[2] + GridBits)) = 0
Fix(a) ==
  IF a[1] = 0 THEN 0
  ELSE IF a[2] + GridBits >= 0 THEN a[1] * Two(a[2] + GridBits)
  ELSE a[1] \div Two(-(a[2] + GridBits))
\* the float r is exactly x / Grid
Is(r, x) == OnGrid(r) /\ Fix(r) = x
RECURSIVE FixSum(_, _, _)
\* the exact sum of the weights estimate_value reads from table t on
FixSum(w, after, t) ==
  IF t >= NumTuples THEN 0
  ELSE Fix(Lookup(w, after, t)) + FixSum(w, after, t + 1)
\* estimate_value(after) is the exact sum of the weights it reads
ExactEstimate(w, after) ==
  /\ \A t \in 0..(NumTuples - 1) : OnGrid(Lookup(w, after, t))
  /\ Is(estimate_value(w, after), FixSum(w, after, 0))
\* no operation of adjust_value(after, target) on the weights w rounds: the
\* estimate, err, adjust and the 32 sums weight + adjust are exact
ExactAdjust(w, a, after, target, err, adjust) ==
  /\ ExactEstimate(w, after)
  /\ OnGrid(a)
  /\ Is(err, target * Grid - FixSum(w, after, 0))
  /\ OnGrid(adjust)
  /\ Fix(adjust) * Grid = Fix(a) * Fix(err)
  /\ \A t \in 0..(NumTuples - 1) :
       Is(FAdd(Lookup(w, after, t), adjust),
          Fix(Lookup(w, after, t)) + Fix(adjust))
ExactCall ==
  /\ ExactAdjust(last.net0, alpha, last.board, last.target,
                 FSub(FromInt(last.target),
                      estimate_value(last.net0, last.board)),
                 FMul(alpha, FSub(FromInt(last.target),
                                  estimate_value(last.net0, last.board))))
  /\ ExactEstimate(net, last.board)

\* C10 (amended): when no float operation of the call, nor of the two
\* estimates, rounds, the call moves the estimate strictly toward target
\* without passing it, and new error = (1 - alpha * 32) * old error.
C10_ExactAdjustShrinksError ==
  ( /\ last.op = "adjust"
    /\ FGreater(alpha, FZero)
    /\ FLess(FMul(alpha, FromInt(NumTuples)), FromInt(1))
    /\ estimate_value(last.net0, last.board) # FromInt(last.target)
    /\ ExactCall )
  => /\ StrictlyCloser(estimate_value(last.net0, last.board),
                       estimate_value(net, last.board), FromInt(last.target))
     /\ (last.target * Grid - FixSum(net, last.board, 0)) * Grid
          = (Grid - NumTuples * Fix(alpha))
              * (last.target * Grid - FixSum(last.net0, last.board, 0))
C10_Witness ==
  /\ last.op = "adjust"
  /\ last.prev = "adjust"
  /\ FLess(FMul(alpha, FromInt(NumTuples)), FromInt(1))
  /\ estimate_value(last.net0, last.board) # FromInt(last.target)
  /\ last.net0 # NoWeights
  /\ ExactCall
\* the empty cells of b
Empty(b) == {p \in 0..15 : Cell(b, p) = 0}
\* the actions Place(position, exponent) on an empty cell of b
Places(b) == {ActionPlace(p, e) : p \in Empty(b), e \in {1, 2}}

\* C11: rndenv::take_action returns the null action exactly when the board
\* has no empty cell, and otherwise Place(position, exponent) with position
\* an empty cell of the board and exponent 1 or 2; every empty cell and both
\* exponents are possible outcomes of the call.
C11_EnvPlacesOnEmpty ==
  last.op = "env" =>
    /\ (last.ret = ActionNull) = (Empty(last.board) = {})
    /\ last.ret # ActionNull => last.ret \in Places(last.board)
    /\ \A a \in Places(last.board) :
         \E sp \in Shuffles(space), draw \in Popups :
           rndenv_take_action(last.board, sp, draw) = a
C11_Witness ==
  /\ last.op = "env"
  /\ last.prev = "env"
  /\ last.board = BoardTwo
  /\ last.ret = ActionPlace(4, 2)
\* C12: open_episode and take_action, lookahead included, leave every entry
\* of every weight table as it was: only close_episode changes the weights.
C12_LearningOnlyAtClose ==
  last.op \in {"open", "take"} => net = last.net0
C12_Witness ==
  /\ last.op = "take"
  /\ last.ret[2] \in 0..3
  /\ count.close >= 1
  /\ net \notin {NoWeights, Loaded, Diverged}

\* the exponents a board shows at the cells of table t, first cell first
ExponentsAt(after, t) ==
  [j \in 1..Len(EstTuples[t + 1]) |-> Cell(after, EstTuples[t + 1][j])]
\* the k base-V digits of idx, most significant first
Digits(idx, base, k) == [j \in 1..k |-> (idx \div base ^ (k - j)) % base]

\* C13: the index of a k-cell tuple whose exponents lie in [0, V) is the
\* base-V number with the first cell most significant: it lies in [0, V^k),
\* its base-V digits give the exponents back, and two boards get the same
\* index only if they agree on the tuple's cells (V = 31 with k = 5 and
\* k = 4; V = 25 with k = 5 in the earlier agent).
C13_FeatureIsBaseVNumber ==
  last.op = "feature" =>
    LET base == last.ret[2]
        idx == last.ret[3]
        t == last.target
        k == Len(EstTuples[t + 1])
    IN /\ idx \in 0..(base ^ k - 1)
       /\ Digits(idx, base, k) = ExponentsAt(last.board, t)
       /\ \A other \in FeatureBoards(base) :
            FeatureIndex(base, other, t) = idx
              => ExponentsAt(other, t) = ExponentsAt(last.board, t)
C13_Witness ==
  /\ last.op = "feature"
  /\ last.prev = "feature"
  /\ last.board = Falling(V)
  /\ last.target = 0
  /\ last.ret = <<"index", V, 30 * V ^ 4 + 29 * V ^ 3 + 28 * V ^ 2 + 27 * V + 26>>

\* C14: whenever at least one direction is legal, take_action returns a slide
\* in a legal direction (never direction -1) and appends exactly one step to
\* the history, whatever the weights hold -- also weights that make every
\* estimate and lookahead as low as the -FLT_MAX sentinel.
C14_LegalMoveAlwaysTaken ==
  (last.op = "take" /\ Legal(last.board) # {}) =>
    /\ \E op \in Legal(last.board) : last.ret = ActionSlide(op)
    /\ Len(history) = Len(last.hist0) + 1
    /\ SubSeq(history, 1, Len(last.hist0)) = last.hist0

=============================================================================
